---- MODULE Spec2Model ----
(***************************************************************************)
(* Model of generate_dummy_data (src/main.py): the recursive walk that     *)
(* turns a declared field type plus its extracted constraint metadata      *)
(* into one dummy value.  Randomness (random.choice, the Faker generator)  *)
(* is modelled as the set of values a call can return, so every operator   *)
(* that models a piece of generate_value yields the SET of its outcomes;   *)
(* a raised exception is an outcome of kind "raise".                       *)
(***************************************************************************)
EXTENDS Integers, Sequences, FiniteSets

VARIABLES pc, field_type, annotations, metadata, result, rule, output

vars == <<pc, field_type, annotations, metadata, result, rule, output>>

-----------------------------------------------------------------------------
(* Bounds of the model.                                                    *)

\* largest numeric bound drawn for the gt/ge/lt/le attributes of an Interval
MaxBound == 2
\* largest length drawn for min_length/max_length of a StringConstraints
MaxLength == 6
\* magnitude (in thousandths) of the floats an unbounded pyfloat() is drawn from
MaxAnyFloat == 2

-----------------------------------------------------------------------------
(* Python values.  Every value is a record <<kind, val>>; floats are held  *)
(* in thousandths, strings as TLA+ strings, a dict as the sequence of its  *)
(* items in insertion order.                                               *)

None == [kind |-> "None", val |-> <<>>]
PyBool(b) == [kind |-> "bool", val |-> b]
PyInt(n) == [kind |-> "int", val |-> n]
PyFloat(m) == [kind |-> "float", val |-> m]
PyStr(s) == [kind |-> "str", val |-> s]
PyList(s) == [kind |-> "list", val |-> s]
PyTuple(s) == [kind |-> "tuple", val |-> s]
PyDict(items) == [kind |-> "dict", val |-> items]
Raise(e) == [kind |-> "raise", val |-> e]

NotCalled == [kind |-> "not called", val |-> <<>>]

Raises(V) == {v \in V : v.kind = "raise"}
Normal(V) == {v \in V : v.kind # "raise"}

\* d[k] = v on a Python dict: an existing key keeps its position and takes the
\* new value, a new key is appended
DictSetItem(d, k, v) ==
    IF \E i \in DOMAIN d.val : d.val[i].key = k
    THEN PyDict([i \in DOMAIN d.val |->
                    IF d.val[i].key = k THEN [key |-> k, value |-> v] ELSE d.val[i]])
    ELSE PyDict(Append(d.val, [key |-> k, value |-> v]))

Keys(d) == [i \in DOMAIN d.val |-> d.val[i].key]

\* round(x, 2) on a float held in thousandths: to the nearest hundredth, a tie
\* to the even hundredth
Round2(x) ==
    LET q == x \div 10
        r == x % 10
    IN  IF r < 5 THEN 10 * q
        ELSE IF r > 5 THEN 10 * (q + 1)
        ELSE IF q % 2 = 0 THEN 10 * q ELSE 10 * (q + 1)

RECURSIVE Rep(_)
Rep(n) == IF n <= 0 THEN "" ELSE "x" \o Rep(n - 1)

Max(a, b) == IF a >= b THEN a ELSE b

\* s[:n] for n >= 0
Slice(s, n) == IF n >= Len(s) THEN s ELSE SubSeq(s, 1, n)

-----------------------------------------------------------------------------
(* The collaborators: random.choice and the Faker instance `fake`.         *)

Choice(seq) == {seq[i] : i \in DOMAIN seq}

WordList == {"aut", "quo"}

FakeWord == {PyStr(w) : w \in WordList}

FakeBoolean == {PyBool(TRUE), PyBool(FALSE)}

\* random_int(min, max): randrange(min, max + 1), which rejects an empty range
FakeRandomInt(min, max) ==
    IF min > max THEN {Raise("ValueError")} ELSE {PyInt(n) : n \in min..max}

\* pyfloat(min_value, max_value), in thousandths
FakePyFloatIn(min, max) ==
    IF min > max THEN {Raise("ValueError")} ELSE {PyFloat(m) : m \in min..max}

\* pyfloat() with no range
FakePyFloat == {PyFloat(m) : m \in -MaxAnyFloat..MaxAnyFloat}

\* pystr(min_chars, max_chars): that many random letters
FakePyStr(min_chars, max_chars) ==
    IF min_chars > max_chars THEN {Raise("AssertionError")}
    ELSE {PyStr(Rep(n)) : n \in min_chars..max_chars}

\* text(max_nb_chars): words and a full stop, never more than max_nb_chars
\* characters and as short as one short word; refuses fewer than 5 characters
FakeText(max_nb_chars) ==
    IF max_nb_chars < 5 THEN {Raise("ValueError")}
    ELSE {PyStr(Rep(n)) : n \in 2..max_nb_chars}

\* sentence(nb_words=4): a few words and a full stop
FakeSentence == {PyStr(w1 \o " " \o w2 \o ".") : w1 \in WordList, w2 \in WordList}

-----------------------------------------------------------------------------
(* Declared types.  A type is a record: kind names the class or the        *)
(* generic alias, bases the classes a class is a subclass of (empty for    *)
(* what is not a class), args the alias's arguments (for a RootModel       *)
(* subclass: the annotation of its `root` attribute, when it declares      *)
(* one), fields a model's model_fields in declared order, members an       *)
(* enumeration's members in definition order.                              *)

Class(kind, bases) ==
    [kind |-> kind, bases |-> bases, args |-> <<>>, fields |-> <<>>, members |-> <<>>]
Alias(kind, args) ==
    [kind |-> kind, bases |-> {}, args |-> args, fields |-> <<>>, members |-> <<>>]

int == Class("int", {"int"})
bool == Class("bool", {"bool", "int"})
float == Class("float", {"float"})
str == Class("str", {"str"})
list == Class("list", {"list"})
dict == Class("dict", {"dict"})
bytes == Class("bytes", {"bytes"})
NoneType == Class("NoneType", {"NoneType"})
Any == Alias("Any", <<>>)

List(t) == Alias("List", <<t>>)
Dict(k, v) == Alias("Dict", <<k, v>>)
Tuple(ts) == Alias("Tuple", ts)
Union(ts) == Alias("Union", ts)
Optional(t) == Union(<<t, NoneType>>)

\* class X(Enum) with the given members; mixin is {} or the mixed-in data type
EnumClass(mixin, members) ==
    [kind |-> "Enum", bases |-> {"Enum"} \cup mixin, args |-> <<>>, fields |-> <<>>,
     members |-> members]
\* class X(BaseModel) with the given fields
ModelClass(fields) ==
    [kind |-> "BaseModel", bases |-> {"BaseModel"}, args |-> <<>>, fields |-> fields,
     members |-> <<>>]
\* class X(RootModel[...]); root is <<annotation>> when the class body declares
\* `root: annotation`, <<>> when it does not
RootModelClass(root) ==
    [kind |-> "RootModel", bases |-> {"RootModel", "BaseModel"}, args |-> root,
     fields |-> <<>>, members |-> <<>>]

FieldInfo(name, annotation, md) == [name |-> name, annotation |-> annotation, metadata |-> md]
Member(name, value) == [name |-> name, value |-> value]

IsType(t) == t.bases # {}
IsSubclass(t, base) == base \in t.bases

get_origin(t) ==
    CASE t.kind = "Union" -> "Union"
      [] t.kind = "List" -> "list"
      [] t.kind = "Dict" -> "dict"
      [] t.kind = "Tuple" -> "tuple"
      [] OTHER -> "None"

get_args(t) == IF get_origin(t) = "None" THEN <<>> ELSE t.args

\* field_type.__annotations__.get('root', Any)
RootAnnotation(t) == IF t.args = <<>> THEN Any ELSE t.args[1]

-----------------------------------------------------------------------------
(* Constraint annotations and extract_metadata.  An annotation object is   *)
(* a record of its class and its attributes (its __dict__), a Python dict  *)
(* a function from its keys to Python values.                              *)

EmptyDict == [k \in {} |-> None]

Interval(gt, ge, lt, le) ==
    [cls |-> "Interval", attrs |-> [gt |-> gt, ge |-> ge, lt |-> lt, le |-> le]]
StringConstraints(min_length, max_length) ==
    [cls |-> "StringConstraints",
     attrs |-> [strip_whitespace |-> None, to_upper |-> None, to_lower |-> None,
                strict |-> None, min_length |-> min_length,
                max_length |-> max_length, pattern |-> None]]
\* any other annotation object (Strict, MultipleOf, Ge, ...)
OtherAnnotation == [cls |-> "Other", attrs |-> [strict |-> PyBool(TRUE)]]

\* d.update(e)
Update(d, e) ==
    [k \in DOMAIN d \cup DOMAIN e |-> IF k \in DOMAIN e THEN e[k] ELSE d[k]]

\* d.get(k, default)
Get(d, k, default) == IF k \in DOMAIN d THEN d[k] ELSE default

\* the body of the loop over the metadata list
ExtractItem(extracted, item) ==
    IF item.cls = "StringConstraints" THEN Update(extracted, item.attrs)
    ELSE IF item.cls = "Interval"
         THEN Update(extracted, [k \in {"gt", "ge", "lt", "le"} |-> item.attrs[k]])
         ELSE extracted

RECURSIVE ExtractLoop(_, _)
ExtractLoop(extracted, items) ==
    IF items = <<>> THEN extracted
    ELSE ExtractLoop(ExtractItem(extracted, Head(items)), Tail(items))

extract_metadata(items) ==
    LET extracted == ExtractLoop(EmptyDict, items)
    IN  [k \in {j \in DOMAIN extracted : extracted[j] # None} |-> extracted[k]]

-----------------------------------------------------------------------------
(* generate_value: the dispatch on the declared type.                      *)

\* the fan-out of the list and of the dict comprehension
ListCount == 3
DictCount == 2

IsOptional(t) ==
    get_origin(t) = "Union" /\ \E i \in DOMAIN get_args(t) : get_args(t)[i] = NoneType
IsRootModel(t) == IsType(t) /\ IsSubclass(t, "RootModel")
IsBaseModel(t) == IsType(t) /\ IsSubclass(t, "BaseModel")
IsEnum(t) == IsType(t) /\ IsSubclass(t, "Enum")
IsBool(t) == t = bool \/ (IsType(t) /\ IsSubclass(t, "bool"))

\* faulty variant: the integer rule tried ahead of the boolean rule
DispatchIntBeforeBool(t) ==
    IF IsType(t) /\ IsSubclass(t, "int") THEN "int"
    ELSE IF IsBool(t) THEN "bool"
    ELSE IF IsType(t) /\ IsSubclass(t, "float") THEN "float"
    ELSE IF IsType(t) /\ IsSubclass(t, "str") THEN "str"
    ELSE IF t = list THEN "fallback_list"
    ELSE IF t = Any THEN "fallback_any"
    ELSE "no_rule"

\* faulty variant: the bare-primitive fallbacks tried ahead of the constrained rules
DispatchFallbackFirst(t) ==
    IF IsBool(t) THEN "bool"
    ELSE IF t = str THEN "fallback_str"
    ELSE IF t = int THEN "fallback_int"
    ELSE IF t = float THEN "fallback_float"
    ELSE IF t = list THEN "fallback_list"
    ELSE IF t = Any THEN "fallback_any"
    ELSE IF IsType(t) /\ IsSubclass(t, "int") THEN "int"
    ELSE IF IsType(t) /\ IsSubclass(t, "float") THEN "float"
    ELSE IF IsType(t) /\ IsSubclass(t, "str") THEN "str"
    ELSE "no_rule"

\* the branch that returns for a type that is no Optional, model, enumeration
\* or collection: the primitive rules and the fallbacks, in the order of their
\* if statements
DispatchPrimitive(t) ==
    IF IsBool(t) THEN "bool"
    ELSE IF IsType(t) /\ IsSubclass(t, "int") THEN "int"
    ELSE IF IsType(t) /\ IsSubclass(t, "float") THEN "float"
    ELSE IF IsType(t) /\ IsSubclass(t, "str") THEN "str"
    ELSE IF t = str THEN "fallback_str"
    ELSE IF t = int THEN "fallback_int"
    ELSE IF t = float THEN "fallback_float"
    ELSE IF t = list THEN "fallback_list"
    ELSE IF t = Any THEN "fallback_any"
    ELSE "no_rule"

\* the branch of generate_value that returns for field_type: the conditions of
\* its if statements, in their order
Dispatch(t) ==
    IF IsOptional(t) THEN "optional"
    ELSE IF IsRootModel(t) THEN "root_model"
    ELSE IF IsBaseModel(t) THEN "base_model"
    ELSE IF IsEnum(t) THEN "enum"
    ELSE IF get_origin(t) = "list" THEN "list"
    ELSE IF get_origin(t) = "dict" THEN "dict"
    ELSE IF get_origin(t) = "tuple" THEN "tuple"
    ELSE DispatchPrimitive(t)

\* next(t for t in args if t is not type(None))
NonNoneType(args) ==
    args[CHOOSE i \in DOMAIN args :
            args[i] # NoneType /\ \A j \in 1..(i - 1) : args[j] = NoneType]

\* faulty variant: the generated value always returned, never None
OptionalRuleAlwaysPresent(V) == V

\* choice([None, v]) for a generated v; an exception raised while generating v
\* propagates
OptionalRule(V) == Raises(V) \cup UNION {Choice(<<None, v>>) : v \in Normal(V)}

\* faulty variant: the member's name in place of its value
EnumRuleName(t) ==
    IF t.members = <<>> THEN {Raise("IndexError")}
    ELSE {PyStr(m.name) : m \in Choice(t.members)}

\* choice(list(field_type)).value
EnumRule(t) ==
    IF t.members = <<>> THEN {Raise("IndexError")}
    ELSE {m.value : m \in Choice(t.members)}

RECURSIVE ListComprehension(_, _, _)
ListComprehension(V, n, acc) ==
    IF n = 0 THEN {acc}
    ELSE Raises(V) \cup
         UNION {ListComprehension(V, n - 1, PyList(Append(acc.val, v))) : v \in Normal(V)}

\* [generate_value(sub_type, metadata) for _ in range(3)]
ListRule(V) == ListComprehension(V, ListCount, PyList(<<>>))

RECURSIVE DictComprehension(_, _, _)
DictComprehension(V, n, acc) ==
    IF n = 0 THEN {acc}
    ELSE Raises(V) \cup
         UNION {DictComprehension(V, n - 1, DictSetItem(acc, k, v)) :
                    k \in FakeWord, v \in Normal(V)}

\* {fake.word(): generate_value(value_type, metadata) for _ in range(2)}
DictRule(V) == DictComprehension(V, DictCount, PyDict(<<>>))

\* metadata.get("ge", metadata.get("gt", 1) + 1)
IntMin(md) == Get(md, "ge", PyInt(Get(md, "gt", PyInt(1)).val + 1)).val
\* faulty variant: the exclusive upper bound taken as inclusive
IntMaxInclusive(md) == Get(md, "le", Get(md, "lt", PyInt(1000))).val

\* metadata.get("le", metadata.get("lt", 1000) - 1)
IntMax(md) == Get(md, "le", PyInt(Get(md, "lt", PyInt(1000)).val - 1)).val

IntRule(md) == FakeRandomInt(IntMin(md), IntMax(md))

\* a numeric bound as a float, in thousandths
Milli(v) == IF v.kind = "float" THEN v.val ELSE 1000 * v.val

\* metadata.get("ge", metadata.get("gt", 1.0) + 0.1)
FloatMin(md) == Milli(Get(md, "ge", PyFloat(Milli(Get(md, "gt", PyFloat(1000))) + 100)))
\* metadata.get("le", metadata.get("lt", 1000.0) - 0.1)
FloatMax(md) == Milli(Get(md, "le", PyFloat(Milli(Get(md, "lt", PyFloat(1000000))) - 100)))

\* round(fake.pyfloat(min_value=min_val, max_value=max_val), 2)
FloatRule(md) ==
    LET V == FakePyFloatIn(FloatMin(md), FloatMax(md))
    IN  Raises(V) \cup {PyFloat(Round2(v.val)) : v \in Normal(V)}

\* faulty variant: no branch for min_length = max_length
StrRuleAlwaysText(md) ==
    LET min_length == Get(md, "min_length", PyInt(5)).val
        max_length == Get(md, "max_length", PyInt(15)).val
        V == FakeText(max_length)
    IN  Raises(V) \cup
        {PyStr(Slice(v.val, Max(min_length, max_length))) : v \in Normal(V)}

StrRule(md) ==
    LET min_length == Get(md, "min_length", PyInt(5)).val
        max_length == Get(md, "max_length", PyInt(15)).val
    IN  IF min_length = max_length
        THEN FakePyStr(min_length, min_length)
        ELSE LET V == FakeText(max_length)
             IN  Raises(V) \cup
                 {PyStr(Slice(v.val, Max(min_length, max_length))) : v \in Normal(V)}

\* the default fallback branches
FallbackStr == FakeSentence
FallbackInt == FakeRandomInt(1, 1000)
FallbackFloat == {PyFloat(Round2(v.val)) : v \in FakePyFloat}
FallbackList == ListComprehension(FakeWord, ListCount, PyList(<<>>))
FallbackAny == FakeWord \cup FakeRandomInt(1, 1000) \cup FakePyFloat \cup FakeSentence

\* faulty variant: an unsupported type rejected
NoRuleRaises == {Raise("TypeError")}

\* the final `return None`
NoRule == {None}

RECURSIVE generate_value(_, _)
RECURSIVE generate_dummy_instance(_)
RECURSIVE TupleGenerator(_, _, _)
RECURSIVE ModelComprehension(_, _)

\* tuple(generate_value(t, metadata) for t in args)
TupleGenerator(args, md, acc) ==
    IF args = <<>> THEN {acc}
    ELSE LET V == generate_value(Head(args), md)
         IN  Raises(V) \cup
             UNION {TupleGenerator(Tail(args), md, PyTuple(Append(acc.val, v))) :
                        v \in Normal(V)}

generate_value(t, md) ==
    LET origin == get_origin(t)
        args == get_args(t)
        branch == Dispatch(t)
    IN  CASE branch = "optional" -> OptionalRule(generate_value(NonNoneType(args), md))
          [] branch = "root_model" -> generate_value(RootAnnotation(t), md)
          [] branch = "base_model" -> generate_dummy_instance(t)
          [] branch = "enum" -> EnumRule(t)
          [] branch = "list" ->
                ListRule(generate_value(IF args # <<>> THEN args[1] ELSE Any, md))
          [] branch = "dict" ->
                DictRule(generate_value(IF args # <<>> THEN args[2] ELSE Any, md))
          [] branch = "tuple" -> TupleGenerator(args, md, PyTuple(<<>>))
          [] branch = "bool" -> FakeBoolean
          [] branch = "int" -> IntRule(md)
          [] branch = "float" -> FloatRule(md)
          [] branch = "str" -> StrRule(md)
          [] branch = "fallback_str" -> FallbackStr
          [] branch = "fallback_int" -> FallbackInt
          [] branch = "fallback_float" -> FallbackFloat
          [] branch = "fallback_list" -> FallbackList
          [] branch = "fallback_any" -> FallbackAny
          [] OTHER -> NoRule

\* faulty variant: the record keyed by the fields' type names
FieldKeyOfType(f) == PyStr(f.annotation.kind)

\* the key a field's value is stored under
FieldKey(f) == PyStr(f.name)

\* {field_name: generate_value(annotation, extract_metadata(metadata)) for ...}
ModelComprehension(fields, acc) ==
    IF fields = <<>> THEN {acc}
    ELSE LET f == Head(fields)
             V == generate_value(f.annotation, extract_metadata(f.metadata))
         IN  Raises(V) \cup
             UNION {ModelComprehension(Tail(fields), DictSetItem(acc, FieldKey(f), v)) :
                        v \in Normal(V)}

generate_dummy_instance(model) ==
    IF IsSubclass(model, "RootModel")
    THEN generate_value(RootAnnotation(model), EmptyDict)
    ELSE ModelComprehension(model.fields, PyDict(<<>>))

\* json.loads(json.dumps(v)): what the returned JSON text holds; a tuple is
\* written as an array
RECURSIVE Json(_)
Json(v) ==
    CASE v.kind = "tuple" -> PyList([i \in DOMAIN v.val |-> Json(v.val[i])])
      [] v.kind = "list" -> PyList([i \in DOMAIN v.val |-> Json(v.val[i])])
      [] v.kind = "dict" ->
            PyDict([i \in DOMAIN v.val |->
                       [key |-> v.val[i].key, value |-> Json(v.val[i].value)]])
      [] OTHER -> v

-----------------------------------------------------------------------------
(* The declared schemas the model is run on: those of src/test_main.py     *)
(* and src/example.py, with numeric ranges narrowed where a schema is      *)
(* nested, and the field types and annotation lists around them.           *)

UserRole ==
    EnumClass({}, <<Member("ADMIN", PyStr("admin")), Member("USER", PyStr("user")),
                    Member("GUEST", PyStr("guest"))>>)
\* class Priority(IntEnum)
Priority == EnumClass({"int"}, <<Member("LOW", PyInt(1)), Member("HIGH", PyInt(1000))>>)

Address ==
    ModelClass(<<FieldInfo("city", str, <<StringConstraints(PyInt(5), PyInt(5))>>),
                 FieldInfo("zip_code", int,
                           <<Interval(PyInt(1000), None, PyInt(1003), None)>>)>>)
User ==
    ModelClass(<<FieldInfo("id", int, <<Interval(None, PyInt(100), None, PyInt(101))>>),
                 FieldInfo("name", str, <<StringConstraints(PyInt(5), PyInt(6))>>),
                 FieldInfo("age", Optional(int),
                           <<Interval(None, PyInt(1), None, PyInt(2))>>),
                 FieldInfo("active", bool, <<>>),
                 FieldInfo("address", Address, <<>>),
                 FieldInfo("role", UserRole, <<>>)>>)
Collections ==
    ModelClass(<<FieldInfo("tags", List(str), <<StringConstraints(PyInt(5), PyInt(5))>>),
                 FieldInfo("metadata", Dict(str, bool), <<>>),
                 FieldInfo("coordinates", Tuple(<<bool, UserRole>>), <<>>)>>)
EmptyModel == ModelClass(<<>>)
DeepNested ==
    ModelClass(<<FieldInfo("level1", Address, <<>>),
                 FieldInfo("level2", List(Address), <<>>),
                 FieldInfo("level3", Dict(str, Address), <<>>)>>)
UnionModel == ModelClass(<<FieldInfo("mixed_field", Union(<<int, str>>), <<>>)>>)
Partial ==
    ModelClass(<<FieldInfo("active", bool, <<>>),
                 FieldInfo("blob", bytes, <<>>),
                 FieldInfo("mixed_field", Union(<<int, str>>), <<>>),
                 FieldInfo("role", UserRole, <<>>)>>)
RootString == RootModelClass(<<str>>)
RootList == RootModelClass(<<List(Address)>>)
\* class RootBare(RootModel[List[Address]]) with no `root:` line in its body
RootBare == RootModelClass(<<>>)

Models ==
    {Address, User, Collections, EmptyModel, DeepNested, UnionModel, Partial,
     RootString, RootList, RootBare}

Bounds == {None} \cup {PyInt(n) : n \in 0..MaxBound}
Lengths == {None} \cup {PyInt(n) : n \in 4..MaxLength}

IntervalLists ==
    {<<Interval(gt, ge, lt, le)>> : gt \in Bounds, ge \in Bounds, lt \in Bounds, le \in Bounds}
    \cup {<<Interval(None, PyInt(100), None, PyInt(999))>>,
          <<Interval(PyInt(1000), None, PyInt(9999), None)>>,
          <<Interval(None, PyInt(42), None, PyInt(42))>>,
          <<OtherAnnotation, Interval(None, PyInt(1), None, PyInt(2)), OtherAnnotation>>,
          <<Interval(None, PyInt(1), None, PyInt(2)), Interval(PyInt(0), None, None, None)>>}

StringConstraintLists ==
    {<<StringConstraints(lo, hi)>> : lo \in Lengths, hi \in Lengths}
    \cup {<<StringConstraints(PyInt(5), PyInt(15))>>,
          <<StringConstraints(PyInt(10), PyInt(10))>>,
          <<StringConstraints(PyInt(15), None)>>,
          <<StringConstraints(PyInt(5), PyInt(6)), Interval(None, PyInt(1), None, PyInt(2))>>}

FloatLists ==
    {<<>>, <<Interval(None, PyInt(1), None, PyInt(2))>>,
     <<Interval(PyInt(1), None, PyInt(2), None)>>,
     <<Interval(None, PyInt(2), None, PyInt(1))>>}

PlainLists == {<<>>, <<OtherAnnotation>>}

NumericTypes == {int, bool, Priority, Optional(int), Optional(bool)}
TextTypes == {str, Optional(str), RootString}
OtherTypes ==
    Models \cup
    {int, str, bytes, NoneType, Any, list, dict, UserRole, Priority,
     Union(<<int, str>>), Union(<<int, str, NoneType>>), Union(<<NoneType, str>>),
     Optional(bytes), Optional(dict), Optional(UnionModel), Optional(UserRole),
     Optional(Address), Optional(List(bool)), Optional(RootString),
     List(bool), List(UserRole), List(Address), List(Optional(bool)),
     Dict(str, bool), Dict(str, Address), Dict(str, UserRole), Dict(str, bytes),
     Tuple(<<bool, UserRole>>), Tuple(<<>>), Tuple(<<Address, bytes, bool>>),
     List(UnionModel), Dict(str, EmptyModel)}

\* the (annotation, metadata list) pairs a field may declare
Calls ==
    (NumericTypes \X IntervalLists) \cup (TextTypes \X StringConstraintLists)
    \cup ({float} \X FloatLists) \cup (OtherTypes \X PlainLists)

-----------------------------------------------------------------------------
(* The state machine: one call per behaviour, on a declared field or on a  *)
(* whole schema.                                                           *)

Init ==
    /\ pc = "ready"
    /\ \E c \in Calls : field_type = c[1] /\ annotations = c[2]
    /\ metadata = EmptyDict
    /\ result = NotCalled
    /\ rule = "none"
    /\ output = NotCalled

\* one field of a schema:
\* generate_value(field_info.annotation, extract_metadata(field_info.metadata))
GenerateField ==
    /\ pc = "ready"
    /\ metadata' = extract_metadata(annotations)
    /\ result' \in generate_value(field_type, metadata')
    /\ rule' = Dispatch(field_type)
    /\ pc' = "value"
    /\ UNCHANGED <<field_type, annotations, output>>

\* generate_dummy_data(model)
GenerateDummyData ==
    /\ pc = "ready"
    /\ IsBaseModel(field_type)
    /\ annotations = <<>>
    /\ result' \in generate_dummy_instance(field_type)
    /\ output' = IF result'.kind = "raise" THEN result' ELSE Json(result')
    /\ rule' = "generate_dummy_instance"
    /\ pc' = "instance"
    /\ UNCHANGED <<field_type, annotations, metadata>>

Next == GenerateField \/ GenerateDummyData

Spec == Init /\ [][Next]_vars

-----------------------------------------------------------------------------
(* Properties.                                                             *)

Has(md, k) == k \in DOMAIN md

\* the integer bounds as the specification derives them
ClaimedLo(md) ==
    IF Has(md, "ge") THEN md["ge"].val
    ELSE IF Has(md, "gt") THEN md["gt"].val + 1 ELSE 2
ClaimedHi(md) ==
    IF Has(md, "le") THEN md["le"].val
    ELSE IF Has(md, "lt") THEN md["lt"].val - 1 ELSE 999

\* C1: an integer field whose derived bounds satisfy lo <= hi yields an integer
\* x with lo <= x <= hi, lo being ge, else gt + 1, else 2 and hi being le, else
\* lt - 1, else 999.
IntWithinBounds ==
    (pc = "value" /\ field_type = int /\ ClaimedLo(metadata) <= ClaimedHi(metadata))
        => /\ result.kind = "int"
           /\ ClaimedLo(metadata) <= result.val
           /\ result.val <= ClaimedHi(metadata)

IntWithinBoundsWitness ==
    /\ pc = "value"
    /\ field_type = int
    /\ metadata = [gt |-> PyInt(1000), lt |-> PyInt(9999)]
    /\ result = PyInt(9998)

\* C2: a Mapping field yields exactly 2 entries, each with a text key, also
\* when the two generated keys are equal.
DictHasTwoEntries ==
    (pc = "value" /\ rule = "dict" /\ result.kind # "raise")
        => /\ result.kind = "dict"
           /\ Len(result.val) = 2
           /\ \A i \in DOMAIN result.val : result.val[i].key.kind = "str"

\* C3: a text field with min_length = m < max_length = M yields a string s with
\* m <= len(s) <= M, whatever text the free-text generator returns.
StrLengthWithinBounds ==
    (/\ pc = "value" /\ field_type = str /\ result.kind # "raise"
     /\ Has(metadata, "min_length") /\ Has(metadata, "max_length")
     /\ metadata["min_length"].val < metadata["max_length"].val)
        => /\ result.kind = "str"
           /\ metadata["min_length"].val <= Len(result.val)
           /\ Len(result.val) <= metadata["max_length"].val

\* whether value v has, wherever declared type t holds a record schema, a dict
\* whose keys are that schema's field names in declared order
RECURSIVE RecordsMatch(_, _)
RecordsMatch(t, v) ==
    CASE v.kind = "None" -> TRUE
      [] IsOptional(t) -> RecordsMatch(NonNoneType(t.args), v)
      [] t.kind = "RootModel" -> RecordsMatch(RootAnnotation(t), v)
      [] t.kind = "BaseModel" ->
            /\ v.kind = "dict"
            /\ Keys(v) = [i \in DOMAIN t.fields |-> PyStr(t.fields[i].name)]
            /\ \A i \in DOMAIN t.fields :
                  RecordsMatch(t.fields[i].annotation, v.val[i].value)
      [] t.kind = "List" /\ t.args # <<>> ->
            v.kind = "list" /\ \A i \in DOMAIN v.val : RecordsMatch(t.args[1], v.val[i])
      [] t.kind = "Dict" /\ t.args # <<>> ->
            v.kind = "dict" /\ \A i \in DOMAIN v.val : RecordsMatch(t.args[2], v.val[i].value)
      [] t.kind = "Tuple" ->
            /\ v.kind = "tuple"
            /\ Len(v.val) = Len(t.args)
            /\ \A i \in DOMAIN t.args : RecordsMatch(t.args[i], v.val[i])
      [] OTHER -> TRUE

\* C4: synthesizing a record schema, top-level or nested at any depth, yields a
\* mapping whose keys are exactly the schema's declared field names in declared
\* order; a schema with no field yields the empty mapping, neither an error nor
\* null.
RecordKeysAreFieldNames ==
    (pc \in {"value", "instance"} /\ result.kind # "raise")
        => /\ RecordsMatch(field_type, result)
           /\ field_type.kind = "BaseModel" => result.kind = "dict"
           /\ field_type = EmptyModel => result = PyDict(<<>>)

RecordKeysWitness ==
    /\ pc = "instance"
    /\ field_type = DeepNested
    /\ Keys(result) = <<PyStr("level1"), PyStr("level2"), PyStr("level3")>>
    /\ Len(result.val[3].value.val) = 2
    /\ Keys(result.val[2].value.val[3]) = <<PyStr("city"), PyStr("zip_code")>>

NonNull(V) == {v \in V : v.kind \notin {"None", "raise"}}

EnumYieldsStoredValue ==
    (pc = "value" /\ rule = "enum")
        => /\ \E i \in DOMAIN field_type.members : result = field_type.members[i].value
           /\ \A i \in DOMAIN field_type.members : result # PyStr(field_type.members[i].name)

EnumWitness ==
    pc = "value" /\ field_type = UserRole /\ result = PyStr("admin")

\* C7: a text field with min_length = max_length = L yields a string of length
\* exactly L.
ExactLength ==
    (/\ pc = "value" /\ field_type = str
     /\ Has(metadata, "min_length") /\ Has(metadata, "max_length")
     /\ metadata["min_length"] = metadata["max_length"])
        => result.kind = "str" /\ Len(result.val) = metadata["min_length"].val

ExactLengthWitness ==
    /\ pc = "value"
    /\ field_type = str
    /\ metadata = [min_length |-> PyInt(10), max_length |-> PyInt(10)]
    /\ result.kind = "str"
    /\ Len(result.val) = 10

\* the dispatch rules in the specification's order, and the shapes each takes
RuleOrder ==
    <<"optional", "root_model", "base_model", "enum", "list", "dict", "tuple", "bool",
      "int", "float", "str">>
Matches(r, t) ==
    CASE r = "optional" -> IsOptional(t)
      [] r = "root_model" -> IsRootModel(t)
      [] r = "base_model" -> IsBaseModel(t)
      [] r = "enum" -> IsEnum(t)
      [] r = "list" -> get_origin(t) = "list"
      [] r = "dict" -> get_origin(t) = "dict"
      [] r = "tuple" -> get_origin(t) = "tuple"
      [] r = "bool" -> IsBool(t)
      [] r = "int" -> IsType(t) /\ IsSubclass(t, "int")
      [] r = "float" -> IsType(t) /\ IsSubclass(t, "float")
      [] r = "str" -> IsType(t) /\ IsSubclass(t, "str")
MatchesNone(t) ==
    /\ \A i \in DOMAIN RuleOrder : ~Matches(RuleOrder[i], t)
    /\ t \notin {list, Any}

\* C8: a shape that matches no dispatch rule yields the null value without
\* raising, and the enclosing record is still produced with that field present
\* and set to null.
NoRuleYieldsNone ==
    /\ (pc = "value" /\ MatchesNone(field_type)) => result = None
    /\ (pc = "instance" /\ field_type.kind = "BaseModel")
          => /\ result.kind = "dict"
             /\ \A i \in DOMAIN field_type.fields :
                   MatchesNone(field_type.fields[i].annotation)
                       => /\ i \in DOMAIN result.val
                          /\ result.val[i] =
                                [key |-> PyStr(field_type.fields[i].name), value |-> None]
                          /\ output.val[i] = result.val[i]

NoRuleWitness ==
    /\ pc = "instance"
    /\ field_type = Partial
    /\ result.val[3] = [key |-> PyStr("mixed_field"), value |-> None]
    /\ result.val[2] = [key |-> PyStr("blob"), value |-> None]
    /\ result.val[4].value = PyStr("user")

\* C9: a type that matches several dispatch rules is handled by the earliest
\* in the order Optional, wrapper, record, enumeration, sequence, mapping,
\* tuple, boolean, integer, float, text: a boolean field yields true or false
\* and never an integer, whatever its constraints; a single-value wrapper is
\* unwrapped, not emitted as a record; an integer enumeration yields a member's
\* stored value.
EarliestRuleWins ==
    pc = "value" =>
        /\ \A i \in DOMAIN RuleOrder :
              (Matches(RuleOrder[i], field_type)
               /\ \A j \in 1..(i - 1) : ~Matches(RuleOrder[j], field_type))
                  => rule = RuleOrder[i]
        /\ field_type = bool => result \in {PyBool(TRUE), PyBool(FALSE)}
        /\ field_type = RootString => result.kind \in {"str", "raise"}
        /\ field_type = RootList => result.kind = "list"
        /\ field_type = Priority => result \in {PyInt(1), PyInt(1000)}

EarliestRuleWitness ==
    /\ pc = "value"
    /\ field_type = bool
    /\ metadata = [ge |-> PyInt(0), le |-> PyInt(2)]
    /\ result = PyBool(TRUE)

\* C10: int, float and str types, constrained or not, are handled by the
\* constrained-type rules, so the bare-primitive fallback branches for str, int
\* and float never run: an unconstrained integer is in 2..999, an unconstrained
\* text has at most 15 characters; the bare list and the Any fallbacks do run.
PrimitiveFallbacksDead ==
    pc = "value" =>
        /\ rule \notin {"fallback_str", "fallback_int", "fallback_float"}
        /\ field_type \in {int, float, str} => rule = field_type.kind
        /\ field_type = list => rule = "fallback_list"
        /\ field_type = Any => rule = "fallback_any"
        /\ (field_type = int /\ metadata = EmptyDict)
              => result.kind = "int" /\ 2 <= result.val /\ result.val <= 999
        /\ (field_type = str /\ metadata = EmptyDict)
              => result.kind = "str" /\ Len(result.val) <= 15

PrimitiveFallbacksWitness ==
    /\ pc = "value"
    /\ field_type = int
    /\ metadata = EmptyDict
    /\ rule = "int"
    /\ result = PyInt(999)

====
